---- MODULE Spec2Model ----
(***************************************************************************)
(* Model of failure's ResultExt (src/src/result_ext.rs): the three error   *)
(* transforms compat, context and with_context on Result<T, E>, in the     *)
(* generic `E: Fail` implementation and in the specialization for the      *)
(* boxed failure::Error, driven by a caller that applies them in sequence  *)
(* and converts errors with `?` as the documentation tests do.             *)
(***************************************************************************)
EXTENDS Integers, Sequences, FiniteSets, TLC

VARIABLES res, ety, pre, lastOp, trace, calls, withs, wraps, base, twin, nops

vars == <<res, ety, pre, lastOp, trace, calls, withs, wraps, base, twin, nops>>

-----------------------------------------------------------------------------
(* Bounds and input sets *)

MaxOps == 3

Values == {0, 1}

Messages == {"", "My custom error message", "disk full"}

StringD(s) == [ty |-> "String", s |-> s]

I32D(n) == [ty |-> "i32", n |-> n]

Payloads == {StringD("An error occured"), StringD(""), I32D(404)}

Fns == {"prefix", "echo"}

-----------------------------------------------------------------------------
(* Values: results and errors *)

Ok(v) == [tag |-> "Ok", val |-> v]

Err(e) == [tag |-> "Err", err |-> e]

None == [kind |-> "None"]

CustomError(msg) == [kind |-> "CustomError", msg |-> msg]

Compat(error) == [kind |-> "Compat", error |-> error]

Context(context, failure) ==
    [kind |-> "Context", context |-> context, failure |-> failure]

Error_from(failure) ==
    IF failure.kind = "Error" THEN failure
    ELSE [kind |-> "Error", inner |-> failure]

as_fail(e) == IF e.kind = "Error" THEN e.inner ELSE e

\* Display of a context payload: a String shows its text, an i32 its digits.
fmt_D(d) == IF d.ty = "String" THEN d.s ELSE ToString(d.n)

RECURSIVE Display(_)
Display(e) ==
    CASE e.kind = "CustomError" -> e.msg
      [] e.kind = "Compat"      -> Display(e.error)
      [] e.kind = "Context"     -> fmt_D(e.context)
      [] e.kind = "Error"       -> Display(e.inner)

cause(e) ==
    LET f == as_fail(e)
    IN  IF f.kind = "Context" THEN as_fail(f.failure) ELSE None

RECURSIVE CauseChain(_)
CauseChain(e) ==
    <<Display(e)>> \o (IF cause(e) = None THEN <<>> ELSE CauseChain(cause(e)))

RECURSIVE root_cause(_)
root_cause(e) == IF cause(e) = None THEN as_fail(e) ELSE root_cause(cause(e))

Fail_compat(failure) == Compat(failure)

Fail_context(failure, context) == Context(context, Error_from(failure))

Error_compat(error) == Compat(error)

Error_context(error, context) == Context(context, error)

-----------------------------------------------------------------------------
(* Events recorded while a transform runs *)

EvCall(f, arg) == [ev |-> "call_f", f |-> f, arg |-> arg]

EvWrap(failure, context) == [ev |-> "context", failure |-> failure, context |-> context]

EvCompat(error) == [ev |-> "compat", error |-> error]

EvDrop(what) == [ev |-> "drop", what |-> what]

\* The closures of the documentation tests: |e| format!("An error occured: {}", e)
\* and a closure that forwards the error's own text.
Call(f, e) ==
    IF f = "prefix" THEN StringD("An error occured: " \o Display(e))
    ELSE StringD(Display(e))

\* Result::map_err: a success passes through and the closure is dropped with
\* what it captured; an error is replaced by the closure's output. `mapped`
\* is the closure applied to self.err, and is looked at on the error arm only.
map_err(self, mapped, captured) ==
    IF self.tag = "Ok"
    THEN [result |-> Ok(self.val),
          trace  |-> [i \in 1..Len(captured) |-> EvDrop(captured[i])]]
    ELSE [result |-> Err(mapped.value), trace |-> mapped.trace]

-----------------------------------------------------------------------------
(* impl<T, E: Fail> ResultExt<T, E> for Result<T, E> *)

\* Variants of the transforms with one plausible slip each.
compat_description(self) ==
    map_err(self,
            LET err == self.err
            IN  [value |-> Fail_compat(CustomError("An error has occurred.")),
                 trace |-> <<EvCompat(err)>>],
            <<>>)

compat_swallow(self) ==
    IF self.tag = "Ok" THEN [result |-> Ok(self.val), trace |-> <<>>]
    ELSE [result |-> Ok(0), trace |-> <<EvDrop(self.err)>>]

compat(self) ==
    map_err(self,
            LET err == self.err
            IN  [value |-> Fail_compat(err), trace |-> <<EvCompat(err)>>],
            <<>>)

context_concat(self, ctx) ==
    map_err(self,
            LET failure == self.err IN
                LET d == StringD(fmt_D(ctx) \o ": " \o Display(failure))
                IN  [value |-> Fail_context(failure, d), trace |-> <<EvWrap(failure, d)>>],
            <<ctx>>)

context_collapse(self, ctx) ==
    map_err(self,
            LET failure == self.err IN
                [value |-> IF failure.kind = "Context"
                           THEN Context(ctx, failure.failure)
                           ELSE Fail_context(failure, ctx),
                 trace |-> <<EvWrap(failure, ctx)>>],
            <<ctx>>)

context_borrow(self, ctx) ==
    map_err(self,
            LET failure == self.err
            IN  [value |-> Fail_context(failure, ctx),
                 trace |-> <<EvWrap(failure, ctx)>>],
            <<>>)

context(self, ctx) ==
    map_err(self,
            LET failure == self.err
            IN  [value |-> Fail_context(failure, ctx),
                 trace |-> <<EvWrap(failure, ctx)>>],
            <<ctx>>)

with_context_eager(self, f) ==
    IF self.tag = "Ok"
    THEN [result |-> Ok(self.val), trace |-> <<EvCall(f, CustomError(""))>>]
    ELSE [result |-> Err(Fail_context(self.err, Call(f, self.err))),
          trace  |-> <<EvCall(f, self.err), EvWrap(self.err, Call(f, self.err))>>]

with_context_twice(self, f) ==
    map_err(self,
            LET failure == self.err IN
                LET ctx == Call(f, failure)
                IN  [value |-> Fail_context(failure, ctx),
                     trace |-> <<EvCall(f, failure), EvCall(f, failure),
                                 EvWrap(failure, ctx)>>],
            <<f>>)

with_context_nocause(self, f) ==
    map_err(self,
            LET failure == self.err IN
                LET ctx == Call(f, failure)
                IN  [value |-> Fail_context(CustomError(fmt_D(ctx)), ctx),
                     trace |-> <<EvCall(f, failure), EvWrap(failure, ctx)>>],
            <<f>>)

with_context_wrapfirst(self, f) ==
    map_err(self,
            LET failure == self.err IN
                LET ctx == Call(f, failure)
                IN  [value |-> Fail_context(failure, ctx),
                     trace |-> <<EvWrap(failure, ctx), EvCall(f, failure)>>],
            <<f>>)

with_context(self, f) ==
    map_err(self,
            LET failure == self.err IN
                LET ctx == Call(f, failure)
                IN  [value |-> Fail_context(failure, ctx),
                     trace |-> <<EvCall(f, failure), EvWrap(failure, ctx)>>],
            <<f>>)

(* impl<T> ResultExt<T, Error> for Result<T, Error> *)

compat_Error(self) ==
    map_err(self,
            LET err == self.err
            IN  [value |-> Error_compat(err), trace |-> <<EvCompat(err)>>],
            <<>>)

context_Error(self, ctx) ==
    map_err(self,
            LET failure == self.err
            IN  [value |-> Error_context(failure, ctx),
                 trace |-> <<EvWrap(failure, ctx)>>],
            <<ctx>>)

with_context_Error_rewrap(self, f) ==
    map_err(self,
            LET failure == self.err IN
                LET ctx == Call(f, failure)
                IN  [value |-> Error_context(Error_from(Fail_context(failure, ctx)), ctx),
                     trace |-> <<EvCall(f, failure), EvWrap(failure, ctx)>>],
            <<f>>)

with_context_Error(self, f) ==
    map_err(self,
            LET failure == self.err IN
                LET ctx == Call(f, failure)
                IN  [value |-> Error_context(failure, ctx),
                     trace |-> <<EvCall(f, failure), EvWrap(failure, ctx)>>],
            <<f>>)

-----------------------------------------------------------------------------
(* The caller *)

\* `?` in a function returning Result<_, failure::Error>: From<F: Fail> for Error.
question(self) ==
    IF self.tag = "Ok" THEN self ELSE Err(Error_from(self.err))

unboxed(self) ==
    IF self.tag = "Ok" THEN self ELSE Err(as_fail(self.err))

\* Trait resolution: the error type of the receiver selects the impl.
Dispatch(ty, self, name, arg) ==
    CASE name = "compat"       -> IF ty = "Error" THEN compat_Error(self) ELSE compat(self)
      [] name = "context"      -> IF ty = "Error" THEN context_Error(self, arg)
                                  ELSE context(self, arg)
      [] name = "with_context" -> IF ty = "Error" THEN with_context_Error(self, arg)
                                  ELSE with_context(self, arg)

NumCalls(t) == Cardinality({i \in 1..Len(t) : t[i].ev = "call_f"})

\* What a test can observe of one transform's outcome.
Observe(out) ==
    [tag     |-> out.result.tag,
     val     |-> IF out.result.tag = "Ok" THEN out.result.val ELSE -1,
     display |-> IF out.result.tag = "Ok" THEN "" ELSE Display(out.result.err),
     chain   |-> IF out.result.tag = "Ok" THEN <<>> ELSE CauseChain(out.result.err),
     calls   |-> NumCalls(out.trace),
     seen    |-> [i \in 1..Len(out.trace) |->
                     IF out.trace[i].ev = "call_f"
                     THEN Display(out.trace[i].arg) ELSE out.trace[i].ev]]

NoOp == [name |-> "none", arg |-> "-", impl |-> "-"]

Init ==
    /\ res \in {Ok(v) : v \in Values} \cup {Err(CustomError(m)) : m \in Messages}
    /\ ety = "Fail"
    /\ pre = res
    /\ lastOp = NoOp
    /\ trace = <<>>
    /\ calls = 0
    /\ withs = 0
    /\ wraps = 0
    /\ base = IF res.tag = "Ok" THEN None ELSE res.err
    /\ twin = [fail |-> None, error |-> None]
    /\ nops = 0

Apply(name, arg) ==
    LET out == Dispatch(ety, res, name, arg)
    IN  /\ nops < MaxOps
        /\ res' = out.result
        /\ ety' = "Fail"
        /\ pre' = res
        /\ lastOp' = [name |-> name, arg |-> arg, impl |-> ety]
        /\ trace' = out.trace
        /\ calls' = calls + NumCalls(out.trace)
        /\ withs' = IF name = "with_context" THEN withs + 1 ELSE withs
        /\ wraps' = IF name = "compat" THEN 0 ELSE wraps + 1
        /\ base' = IF name = "compat"
                   THEN (IF res.tag = "Ok" THEN None ELSE Compat(res.err))
                   ELSE base
        /\ twin' = [fail  |-> Observe(Dispatch("Fail", unboxed(res), name, arg)),
                    error |-> Observe(Dispatch("Error", question(res), name, arg))]
        /\ nops' = nops + 1

DoCompat == Apply("compat", "-")

DoContext == \E d \in Payloads : Apply("context", d)

DoWithContext == \E f \in Fns : Apply("with_context", f)

DoQuestion ==
    /\ ety = "Fail"
    /\ res' = question(res)
    /\ ety' = "Error"
    /\ pre' = res
    /\ lastOp' = [name |-> "question", arg |-> "-", impl |-> ety]
    /\ trace' = <<>>
    /\ UNCHANGED <<calls, withs, wraps, base, twin, nops>>

Next == DoCompat \/ DoContext \/ DoWithContext \/ DoQuestion

Spec == Init /\ [][Next]_vars

-----------------------------------------------------------------------------
(* Properties *)

Applied(names) == lastOp.name \in names

WasOk == pre.tag = "Ok"

WasErr == pre.tag = "Err"

AllOps == {"compat", "context", "with_context"}

CallsIn(t) == {i \in 1..Len(t) : t[i].ev = "call_f"}

\* C1: on Ok(v), compat, context(D) and with_context(f) each return Ok(v)
\* with the same v, and f is never invoked: the call counter stays 0.
C1_SuccessPassesThrough ==
    (Applied(AllOps) /\ WasOk) =>
        /\ res = Ok(pre.val)
        /\ CallsIn(trace) = {}
        /\ calls = 0

C1_Witness ==
    /\ Applied({"with_context"}) /\ WasOk
    /\ res = Ok(1) /\ withs = 2 /\ calls = 0

\* C2: on Err(e), with_context(f) invokes f exactly once with e, and the
\* returned error displays exactly as f's output displays; with e displaying
\* "My custom error message" and f the "An error occured: {e}" formatter the
\* wrapper displays "An error occured: My custom error message".
C2_LazyPayloadOnError ==
    (Applied({"with_context"}) /\ WasErr) =>
        /\ Cardinality(CallsIn(trace)) = 1
        /\ \A i \in CallsIn(trace) : trace[i].arg = pre.err /\ trace[i].f = lastOp.arg
        /\ res.tag = "Err"
        /\ Display(res.err) = fmt_D(Call(lastOp.arg, pre.err))
        /\ calls = withs
        /\ (Display(pre.err) = "My custom error message" /\ lastOp.arg = "prefix")
              => Display(res.err) = "An error occured: My custom error message"

C2_Witness ==
    /\ Applied({"with_context"}) /\ WasErr
    /\ lastOp.arg = "prefix"
    /\ pre.err = Error_from(CustomError("My custom error message"))
    /\ Display(res.err) = "An error occured: My custom error message"
    /\ calls = 1

\* C3: on Err(e), context(D) returns an error displaying exactly as D
\* displays, whatever e is: e's text is not appended, and an e that displays
\* as the empty string still gives a wrapper displaying D.
C3_FixedPayloadDisplay ==
    (Applied({"context"}) /\ WasErr) =>
        /\ res.tag = "Err"
        /\ Display(res.err) = fmt_D(lastOp.arg)
        /\ res.err.context = lastOp.arg

C3_Witness ==
    /\ Applied({"context"}) /\ WasErr
    /\ Display(pre.err) = ""
    /\ lastOp.arg = StringD("An error occured")
    /\ Display(res.err) = "An error occured"

\* C4: on Err(e), the error returned by context(D) and by with_context(f)
\* keeps e as its cause, and the cause displays as e displays.
C4_CauseRetained ==
    (Applied({"context", "with_context"}) /\ WasErr) =>
        /\ res.tag = "Err"
        /\ cause(res.err) = as_fail(pre.err)
        /\ Display(cause(res.err)) = Display(pre.err)

C4_Witness ==
    /\ Applied({"with_context"}) /\ WasErr
    /\ pre.err = CustomError("disk full")
    /\ cause(res.err) = CustomError("disk full")
    /\ Display(res.err) = "An error occured: disk full"

\* C5: after n context/with_context applications to an error the cause chain
\* has exactly n wrapper levels above the original error, which is still the
\* innermost cause: wrapping a wrapper adds a level and collapses none.
C5_ChainLength ==
    res.tag = "Err" =>
        /\ Len(CauseChain(res.err)) = wraps + 1
        /\ root_cause(res.err) = base

C5_Witness ==
    /\ res.tag = "Err" /\ wraps = 2
    /\ as_fail(pre.err).kind = "Context"
    /\ Len(CauseChain(res.err)) = 3
    /\ base = CustomError("My custom error message")

\* C6: on Err(e), compat() returns Err(Compat(e)) that displays as e does, so
\* a with_context(f) applied after compat() shows f the text of e.
C6_CompatKeepsDisplay ==
    /\ (Applied({"compat"}) /\ WasErr) =>
          /\ res = Err(Compat(pre.err))
          /\ Display(res.err) = Display(pre.err)
    /\ (Applied({"with_context"}) /\ WasErr /\ wraps = 1 /\ base.kind = "Compat") =>
          /\ \A i \in CallsIn(trace) : Display(trace[i].arg) = Display(base.error)
          /\ Display(res.err) = fmt_D(Call(lastOp.arg, base.error))

C6_Witness ==
    /\ Applied({"with_context"}) /\ lastOp.impl = "Error" /\ lastOp.arg = "prefix"
    /\ wraps = 1 /\ base = Compat(CustomError("My custom error message"))
    /\ Display(res.err) = "An error occured: My custom error message"

\* C7: the impl for the boxed Error and the impl for E: Fail agree on every
\* input: same variant, success value, display text, cause chain and number
\* of invocations of f.
C7_SpecializationAgrees ==
    Applied(AllOps) => twin.fail = twin.error

C7_Witness ==
    /\ Applied({"with_context"}) /\ WasErr /\ lastOp.impl = "Error"
    /\ twin.fail.calls = 1 /\ Len(twin.error.chain) = 3
    /\ twin.fail = twin.error

\* C8 as stated: context(D) on a success leaves D alone, neither evaluated
\* nor consumed.
C8_PayloadUntouchedOnSuccess ==
    (Applied({"context"}) /\ WasOk) => trace = <<>>

\* C8: context(D) on a success takes D by value and drops it unused; D
\* reaches the result only on the error path, where it becomes the payload of
\* the wrapper.
C8_PayloadDroppedOnSuccess ==
    /\ (Applied({"context"}) /\ WasOk) =>
          /\ res = pre
          /\ trace = <<EvDrop(lastOp.arg)>>
    /\ (Applied({"context"}) /\ WasErr) =>
          /\ trace = <<EvWrap(pre.err, lastOp.arg)>>
          /\ res.err.context = lastOp.arg

C8_Witness ==
    /\ Applied({"context"}) /\ WasOk
    /\ lastOp.arg = StringD("An error occured")
    /\ trace = <<EvDrop(StringD("An error occured"))>>
    /\ res = Ok(0)

\* C9: compat, context and with_context are total and keep the variant: Ok
\* stays Ok, Err stays Err, and the only new error is the wrapper around the
\* old one.
C9_VariantPreserved ==
    Applied(AllOps) =>
        /\ res.tag = pre.tag
        /\ WasErr => /\ res.err.kind = (IF lastOp.name = "compat" THEN "Compat" ELSE "Context")
                     /\ as_fail(IF lastOp.name = "compat" THEN res.err.error
                                ELSE res.err.failure) = as_fail(pre.err)

C9_Witness ==
    /\ Applied({"compat"}) /\ WasErr /\ nops = MaxOps
    /\ res.tag = "Err" /\ res.err.kind = "Compat"

\* C10: in with_context on an error, f runs before the error is moved into
\* the wrapper, and the error stored as the cause is the one f was shown.
C10_CallBeforeMove ==
    (Applied({"with_context"}) /\ WasErr) =>
        /\ Len(trace) = 2
        /\ trace[1].ev = "call_f"
        /\ trace[2].ev = "context"
        /\ trace[1].arg = pre.err
        /\ trace[2].failure = trace[1].arg
        /\ res.err.failure = Error_from(trace[1].arg)

C10_Witness ==
    /\ Applied({"with_context"}) /\ WasErr /\ lastOp.impl = "Fail"
    /\ Len(trace) = 2 /\ trace[1] = EvCall("echo", pre.err)
    /\ as_fail(pre.err).kind = "Compat"

====
